---- MODULE Spec2Model ----
\* Model of src/src/backbone.router.js: the route registry (route), startup
\* (start), the dispatch pipeline (processControllers, the controllerWrapper
\* closure, processTriggers, processTrigger, the trigger cache) and the
\* navigation controller (go, path, exists, parse).
\*
\* Strings that the code inspects character by character (paths, arguments)
\* are sequences of one-character strings; route and trigger names, which the
\* code only compares, are TLA+ strings.
EXTENDS Integers, Sequences, FiniteSets, TLC

\* ---------------------------------------------------------------- bounds
\* Deepest nesting of processControllers calls before the engine's call stack
\* is exhausted (a RangeError in JavaScript).
MaxDepth == 5
\* Longest currentRoutes the model lets go start from; a path change reported
\* by the history facility starts from a shorter one.
MaxStack == 2

\* ------------------------------------------------------------- strings
Slash == "/"
Colon == ":"
\* The key JavaScript uses for obj[undefined].
UndefinedKey == <<"u", "n", "d", "e", "f", "i", "n", "e", "d">>

\* String.prototype.substring(1)
Substring1(s) == IF s = <<>> THEN <<>> ELSE Tail(s)

\* String.prototype.charAt(0); "" when the string is empty
CharAt0(s) == IF s = <<>> THEN "" ELSE s[1]

HasSlash(s) == \E i \in 1..Len(s) : s[i] = Slash

FirstSlash(s) == CHOOSE i \in 1..Len(s) : s[i] = Slash /\ \A j \in 1..(i - 1) : s[j] # Slash

\* String.prototype.split("/")
RECURSIVE Split(_)
Split(s) ==
    IF ~HasSlash(s) THEN <<s>>
    ELSE <<SubSeq(s, 1, FirstSlash(s) - 1)>> \o Split(SubSeq(s, FirstSlash(s) + 1, Len(s)))

\* Array.prototype.join("/")
RECURSIVE Join(_)
Join(parts) ==
    IF parts = <<>> THEN <<>>
    ELSE IF Len(parts) = 1 THEN parts[1]
    ELSE parts[1] \o <<Slash>> \o Join(Tail(parts))

\* ------------------------------------------------------- route definitions
\* A trigger: a bare name, or an object {name, args?, cache?}.
TStr(n) == [kind |-> "string", name |-> n, hasArgs |-> FALSE, args |-> <<>>, cache |-> FALSE]
TObj(n, hasArgs, args, cache) ==
    [kind |-> "object", name |-> n, hasArgs |-> hasArgs, args |-> args, cache |-> cache]

Fn == [kind |-> "fn", target |-> ""]
Alias(t) == [kind |-> "alias", target |-> t]
NoAction == [kind |-> "none", target |-> ""]

\* A definition object as the host passes it to route(). authed is "unset",
\* "true" or "false"; close is "none" or the value the guard returns
\* ("true", "false", "undefined").
Def(hasPath, path, authed, before, action, after, close) ==
    [hasPath |-> hasPath, path |-> path, authed |-> authed, before |-> before,
     action |-> action, after |-> after, close |-> close]

VARIABLES
    phase,              \* "declare", "started" or "failed" (start did not complete)
    script,             \* the route() calls the host has still to make
    routes,             \* line 27: ordered map path -> owning name
    extendedRoutes,     \* line 33: ordered map path key -> names sharing it
    extendedController, \* line 45: name -> [re, wrappers]
    closeControllers,   \* line 51: name -> close guard
    wrapperDefs,        \* the controllerWrapper closures, in creation order
    dispatcher,         \* Backbone.Router.dispatcher
    currentRoutes,      \* Backbone.Router.currentRoutes
    cachedTriggers,     \* line 57
    authed,             \* options.authed
    redirectToLogin,    \* options.redirectToLogin
    pathname,           \* window.location.pathname
    storedRoute,        \* localStorage "backbone-router:path"; <<>> when absent
    events,             \* what the last call did, in order
    ret,                \* the last call and what it returned
    cachedSends,        \* trigger name -> dispatcher sends from cache-marked triggers since the last clearCache
    nesting             \* how deep the processControllers calls of the last call were nested

vars == <<phase, script, routes, extendedRoutes, extendedController, closeControllers,
          wrapperDefs, dispatcher, currentRoutes, cachedTriggers, authed, redirectToLogin,
          pathname, storedRoute, events, ret, cachedSends, nesting>>

\* ------------------------------------------------------------ ordered maps
\* A JavaScript object used as a map: a sequence of [k, v] in insertion order.
\* (a map in which no key is ever found)
MapHas_Never(m, k) == FALSE

MapHas(m, k) == \E i \in 1..Len(m) : m[i].k = k
MapIdx(m, k) == CHOOSE i \in 1..Len(m) : m[i].k = k
MapGet(m, k) == m[MapIdx(m, k)].v
MapSet(m, k, v) ==
    IF MapHas(m, k) THEN [m EXCEPT ![MapIdx(m, k)] = [k |-> k, v |-> v]]
    ELSE Append(m, [k |-> k, v |-> v])

\* ------------------------------------------------------------------ route
\* lines 276-279: remove the first slash of def.path
StripPath(def) ==
    IF def.hasPath /\ def.path # <<>> /\ CharAt0(def.path) = Slash
    THEN [def EXCEPT !.path = Substring1(def.path)]
    ELSE def

\* The property key def.path is used as (undefined becomes "undefined").
PathKey(def) == IF def.hasPath THEN def.path ELSE UndefinedKey

NoRe == [set |-> FALSE, tpl |-> <<>>]

\* (a route() that always starts the chain of the owning name afresh with the
\* new entry)
RouteOp_RestartsChain(reg, currentName, rawDef) ==
    LET def == StripPath(rawDef)
        key == PathKey(def)
        owned == MapHas(reg.routes, key)
        name == IF owned THEN MapGet(reg.routes, key) ELSE currentName
        id == Len(reg.wrapperDefs) + 1
        er1 == IF owned THEN reg.extendedRoutes ELSE MapSet(reg.extendedRoutes, key, <<>>)
        r1 == IF ~owned /\ def.hasPath THEN MapSet(reg.routes, def.path, name) ELSE reg.routes
        cc1 == IF def.close # "none"
               THEN [n \in DOMAIN reg.closeControllers \cup {currentName} |->
                        IF n = currentName THEN def.close ELSE reg.closeControllers[n]]
               ELSE reg.closeControllers
        er2 == MapSet(er1, key, Append(MapGet(er1, key), currentName))
        ec3 == [n \in DOMAIN reg.extendedController \cup {name, currentName} |->
                    IF n \in {name, currentName} THEN [re |-> NoRe, wrappers |-> <<id>>]
                    ELSE reg.extendedController[n]]
    IN [routes |-> r1, extendedRoutes |-> er2, extendedController |-> ec3,
        closeControllers |-> cc1,
        wrapperDefs |-> Append(reg.wrapperDefs, [name |-> currentName, def |-> def])]

\* (a route() that gives a non-owning name the whole chain of the owning name)
RouteOp_SharesChain(reg, currentName, rawDef) ==
    LET def == StripPath(rawDef)
        key == PathKey(def)
        owned == MapHas(reg.routes, key)
        name == IF owned THEN MapGet(reg.routes, key) ELSE currentName
        id == Len(reg.wrapperDefs) + 1
        er1 == IF owned THEN reg.extendedRoutes ELSE MapSet(reg.extendedRoutes, key, <<>>)
        ec1 == IF owned THEN reg.extendedController
               ELSE [n \in DOMAIN reg.extendedController \cup {name} |->
                        IF n = name THEN [re |-> NoRe, wrappers |-> <<>>]
                        ELSE reg.extendedController[n]]
        r1 == IF ~owned /\ def.hasPath THEN MapSet(reg.routes, def.path, name) ELSE reg.routes
        cc1 == IF def.close # "none"
               THEN [n \in DOMAIN reg.closeControllers \cup {currentName} |->
                        IF n = currentName THEN def.close ELSE reg.closeControllers[n]]
               ELSE reg.closeControllers
        er2 == MapSet(er1, key, Append(MapGet(er1, key), currentName))
        ec2 == [ec1 EXCEPT ![name].wrappers = Append(@, id)]
        ec3 == IF name # currentName
               THEN [n \in DOMAIN ec2 \cup {currentName} |->
                        IF n = currentName THEN [re |-> NoRe, wrappers |-> ec2[name].wrappers]
                        ELSE ec2[n]]
               ELSE ec2
    IN [routes |-> r1, extendedRoutes |-> er2, extendedController |-> ec3,
        closeControllers |-> cc1,
        wrapperDefs |-> Append(reg.wrapperDefs, [name |-> currentName, def |-> def])]

\* The registry after route(currentName, rawDef), given the registry reg =
\* [routes, extendedRoutes, extendedController, closeControllers, wrapperDefs].
RouteOp(reg, currentName, rawDef) ==
    LET def == StripPath(rawDef)
        key == PathKey(def)
        owned == MapHas(reg.routes, key)                          \* line 282
        name == IF owned THEN MapGet(reg.routes, key) ELSE currentName
        id == Len(reg.wrapperDefs) + 1
        er1 == IF owned THEN reg.extendedRoutes
               ELSE MapSet(reg.extendedRoutes, key, <<>>)         \* line 287
        ec1 == IF owned THEN reg.extendedController
               ELSE [n \in DOMAIN reg.extendedController \cup {name} |->
                        IF n = name THEN [re |-> NoRe, wrappers |-> <<>>]
                        ELSE reg.extendedController[n]]           \* lines 290-293
        r1 == IF ~owned /\ def.hasPath
              THEN MapSet(reg.routes, def.path, name)             \* lines 296-301
              ELSE reg.routes
        cc1 == IF def.close # "none"
               THEN [n \in DOMAIN reg.closeControllers \cup {currentName} |->
                        IF n = currentName THEN def.close ELSE reg.closeControllers[n]]
               ELSE reg.closeControllers                          \* lines 313-315
        er2 == MapSet(er1, key, Append(MapGet(er1, key), currentName))   \* line 375
        ec2 == [ec1 EXCEPT ![name].wrappers = Append(@, id)]       \* line 378
        ec3 == IF name # currentName
               THEN [n \in DOMAIN ec2 \cup {currentName} |->
                        IF n = currentName THEN [re |-> NoRe, wrappers |-> <<id>>]
                        ELSE ec2[n]]                              \* lines 382-389
               ELSE ec2
    IN [routes |-> r1, extendedRoutes |-> er2, extendedController |-> ec3,
        closeControllers |-> cc1,
        wrapperDefs |-> Append(reg.wrapperDefs, [name |-> currentName, def |-> def])]

\* ------------------------------------------------------ the running call
\* The state a call threads through its nested calls: cr = currentRoutes,
\* ct = cachedTriggers, st = the stored route, loc = window.location.pathname,
\* auth = options.authed, redir = options.redirectToLogin, ev = the events so
\* far, thrown = an exception is propagating, deep = the deepest nesting of
\* processControllers calls so far (depth counts the calls around a call).
Ev(type, name, by, args, flag) ==
    [type |-> type, name |-> name, by |-> by, args |-> args, flag |-> flag]

Emit(m, e) == [m EXCEPT !.ev = Append(@, e)]

\* An uncaught exception: everything after it in the call is skipped.
Throw(m, what) == [Emit(m, Ev("throw", what, 0, <<>>, FALSE)) EXCEPT !.thrown = TRUE]

\* lines 636-642: exists({name})
ExistsName(ec, name) == name \in DOMAIN ec

\* lines 323-325: the route is to be ignored for this session state
GateFails_LoggedInOnly(def, sessionAuthed) ==
    def.authed = "false" /\ sessionAuthed

GateFails(def, sessionAuthed) ==
    /\ def.authed # "unset"
    /\ \/ def.authed = "true" /\ ~sessionAuthed
       \/ def.authed = "false" /\ sessionAuthed

\* line 347: the route is an alias (its action is a route name)
IsAlias_NeverAlias(def) == FALSE

IsAlias(def) == def.action.kind = "alias"

\* lines 584-597: the index of the cache record of this name, if any
CacheIdx(ct, name) ==
    IF \E i \in 1..Len(ct) : ct[i].name = name
    THEN CHOOSE i \in 1..Len(ct) : ct[i].name = name /\ \A j \in 1..(i - 1) : ct[j].name # name
    ELSE 0

\* lines 584-597: findCachedTrigger, which creates the record when missing
findCachedTrigger(ct, name) ==
    IF CacheIdx(ct, name) = 0 THEN Append(ct, [name |-> name, done |-> FALSE]) ELSE ct

\* line 516: cache.done = true
MarkDone_Forgets(ct, i) == ct

MarkDone(ct, i) == [ct EXCEPT ![i].done = TRUE]

\* lines 525-533: the arguments handed to the dispatcher after the name
TriggerArgs(t) == IF t.hasArgs THEN t.args ELSE <<UndefinedKey>>

RECURSIVE processControllers(_, _, _, _, _, _)
RECURSIVE forEachWrapper(_, _, _, _, _)
RECURSIVE controllerWrapper(_, _, _, _, _)
RECURSIVE processTriggers(_, _, _, _)
RECURSIVE processTrigger(_, _, _, _)
RECURSIVE processTrigger_RouteFirst(_, _, _, _)
RECURSIVE processTriggers_Reversed(_, _, _, _)
RECURSIVE controllerWrapper_AlwaysPushes(_, _, _, _, _)

\* (a processTrigger that looks for a route of the trigger's name before it
\* looks at the cache)
processTrigger_RouteFirst(m, t, by, depth) ==
    IF m.thrown THEN m
    ELSE IF ExistsName(extendedController, t.name)
         THEN processControllers(m, t.name, IF t.kind = "object" /\ t.hasArgs THEN t.args ELSE <<>>,
                                 TRUE, by, depth)
    ELSE IF t.kind = "object" THEN
        LET ct1 == IF t.cache THEN findCachedTrigger(m.ct, t.name) ELSE m.ct
            i == CacheIdx(ct1, t.name)
            skip == t.cache /\ ct1[i].done
            ct2 == IF t.cache THEN MarkDone(ct1, i) ELSE ct1
        IN IF skip THEN [m EXCEPT !.ct = ct1]
           ELSE Emit([m EXCEPT !.ct = ct2], Ev("vent", t.name, by, TriggerArgs(t), t.cache))
    ELSE Emit(m, Ev("vent", t.name, by, <<>>, FALSE))

\* (a processTriggers that goes through the list from its end)
processTriggers_Reversed(m, triggers, by, depth) ==
    IF triggers = <<>> THEN m
    ELSE processTrigger(processTriggers_Reversed(m, Tail(triggers), by, depth),
                        Head(triggers), by, depth)

\* (a controllerWrapper that stores the route name whether or not it runs as
\* a trigger)
controllerWrapper_AlwaysPushes(m, id, args, trigger, depth) ==
    IF m.thrown THEN m
    ELSE
    LET def == wrapperDefs[id].def
        currentName == wrapperDefs[id].name
        m0 == Emit(m, Ev("invoke", currentName, id, args, trigger))
        m1 == [m0 EXCEPT !.cr = Append(@, currentName)]
    IN IF GateFails(def, m.auth) THEN
            IF m.redir /\ ~m.auth
            THEN processControllers([m1 EXCEPT !.st = Substring1(m1.loc)],
                                    "login", <<>>, FALSE, id, depth + 1)
            ELSE processControllers(m1, "403", <<Substring1(m1.loc)>>, FALSE, id, depth + 1)
       ELSE IF IsAlias(def)
            THEN processControllers(m1, def.action.target, args, TRUE, id, depth + 1)
       ELSE
            LET m2 == processTriggers(m1, def.before, id, depth + 1)
                m3 == IF m2.thrown \/ def.action.kind # "fn" THEN m2
                      ELSE Emit(m2, Ev("action", currentName, id, args, FALSE))
            IN processTriggers(m3, def.after, id, depth + 1)

\* lines 499-549. by is the handler-chain entry whose before/after list holds
\* the trigger (0 when the host calls processTrigger itself).
processTrigger(m, t, by, depth) ==
    IF m.thrown THEN m
    ELSE IF t.kind = "object" THEN
        LET ct1 == IF t.cache THEN findCachedTrigger(m.ct, t.name) ELSE m.ct
            i == CacheIdx(ct1, t.name)
            skip == t.cache /\ ct1[i].done                          \* line 510
            ct2 == IF t.cache THEN MarkDone(ct1, i) ELSE ct1
            m1 == [m EXCEPT !.ct = ct2]
        IN IF skip THEN [m EXCEPT !.ct = ct1]
           ELSE IF ExistsName(extendedController, t.name)            \* line 520
                THEN processControllers(m1, t.name, IF t.hasArgs THEN t.args ELSE <<>>,
                                        TRUE, by, depth)
           ELSE Emit(m1, Ev("vent", t.name, by, TriggerArgs(t), t.cache))  \* line 536
    ELSE IF ExistsName(extendedController, t.name)                   \* line 539
         THEN processControllers(m, t.name, <<>>, TRUE, by, depth)
    ELSE Emit(m, Ev("vent", t.name, by, <<>>, FALSE))                \* line 543

\* lines 478-491, for an array of triggers
processTriggers(m, triggers, by, depth) ==
    IF triggers = <<>> THEN m
    ELSE processTriggers(processTrigger(m, Head(triggers), by, depth), Tail(triggers), by, depth)

\* lines 317-372: the closure route() creates; id is its index in wrapperDefs
controllerWrapper(m, id, args, trigger, depth) ==
    IF m.thrown THEN m
    ELSE
    LET def == wrapperDefs[id].def
        currentName == wrapperDefs[id].name
        m0 == Emit(m, Ev("invoke", currentName, id, args, trigger))
        m1 == IF ~trigger THEN [m0 EXCEPT !.cr = Append(@, currentName)] ELSE m0
    IN IF GateFails(def, m.auth) THEN
            IF m.redir /\ ~m.auth                                      \* line 327
            THEN processControllers([m1 EXCEPT !.st = Substring1(m1.loc)],
                                    "login", <<>>, FALSE, id, depth + 1)   \* lines 331-334
            ELSE processControllers(m1, "403", <<Substring1(m1.loc)>>, FALSE, id, depth + 1)
       ELSE IF IsAlias(def)
            THEN processControllers(m1, def.action.target, args, TRUE, id, depth + 1)  \* line 351
       ELSE
            LET m2 == processTriggers(m1, def.before, id, depth + 1)
                m3 == IF m2.thrown \/ def.action.kind # "fn" THEN m2
                      ELSE Emit(m2, Ev("action", currentName, id, args, FALSE))
            IN processTriggers(m3, def.after, id, depth + 1)

\* lines 572-574: _.forEach over the wrappers of a chain
forEachWrapper(m, wrappers, args, trigger, depth) ==
    IF wrappers = <<>> THEN m
    ELSE forEachWrapper(controllerWrapper(m, Head(wrappers), args, trigger, depth),
                        Tail(wrappers), args, trigger, depth)

\* lines 558-575. by is the entry that makes the call (0: go, start or the
\* history facility). A name with no chain makes extendedController[name]
\* undefined, and reading .wrappers of it throws a TypeError.
processControllers(m, name, args, trigger, by, depth) ==
    IF m.thrown THEN m
    ELSE
    LET m1 == Emit([m EXCEPT !.deep = IF depth + 1 > @ THEN depth + 1 ELSE @],
                   Ev("dispatch", name, by, args, trigger))
    IN IF depth > MaxDepth THEN Throw(m1, "RangeError")
       ELSE IF ~ExistsName(extendedController, name) THEN Throw(m1, "TypeError")
       ELSE forEachWrapper(m1, extendedController[name].wrappers, args, trigger, depth)


\* ------------------------------------------------------- path templates
\* line 675: the segment declares an argument
IsParam(part) == CharAt0(part) = Colon

\* (a parse that never advances argIndex)
RECURSIVE ParseParts_NoAdvance(_, _, _)
ParseParts_NoAdvance(parts, args, argIndex) ==
    IF parts = <<>> THEN <<>>
    ELSE IF IsParam(Head(parts))
         THEN <<IF argIndex <= Len(args) THEN args[argIndex] ELSE <<>>>>
              \o ParseParts_NoAdvance(Tail(parts), args, argIndex)
    ELSE <<Head(parts)>> \o ParseParts_NoAdvance(Tail(parts), args, argIndex)

\* lines 666-685: parse. Array.prototype.join writes an undefined element
\* (an index past the end of args) as the empty string.
RECURSIVE ParseParts(_, _, _)
ParseParts(parts, args, argIndex) ==
    IF parts = <<>> THEN <<>>
    ELSE IF IsParam(Head(parts))
         THEN <<IF argIndex <= Len(args) THEN args[argIndex] ELSE <<>>>>
              \o ParseParts(Tail(parts), args, argIndex + 1)
    ELSE <<Head(parts)>> \o ParseParts(Tail(parts), args, argIndex)

parse(path, args) ==
    IF args = <<>> THEN path                                      \* lines 667-669
    ELSE Join(ParseParts(Split(path), args, 1))

\* line 150 and line 649: the matcher router._routeToRegExp compiles from a
\* template, applied to a path: a ":name" segment accepts any non-empty
\* segment, any other segment accepts itself.
Matches(tpl, p) ==
    LET tp == Split(tpl)
        pp == Split(p)
    IN /\ Len(tp) = Len(pp)
       /\ \A i \in 1..Len(tp) :
            IF IsParam(tp[i]) /\ Len(tp[i]) > 1 THEN pp[i] # <<>> ELSE pp[i] = tp[i]

\* The arguments the matcher extracts for the controller.
RECURSIVE ParamsOf(_, _)
ParamsOf(tp, pp) ==
    IF tp = <<>> THEN <<>>
    ELSE (IF IsParam(Head(tp)) /\ Len(Head(tp)) > 1 THEN <<Head(pp)>> ELSE <<>>)
         \o ParamsOf(Tail(tp), Tail(pp))

\* (a start that compiles no matcher)
Compile_Nothing(ec, rts) == ec

\* lines 147-152: store the matcher of each path on its owning chain
RECURSIVE Compile(_, _)
Compile(ec, rts) ==
    IF rts = <<>> THEN ec
    ELSE Compile(IF ExistsName(ec, Head(rts).v)
                 THEN [ec EXCEPT ![Head(rts).v].re = [set |-> TRUE, tpl |-> Head(rts).k]]
                 ELSE ec,
                 Tail(rts))

\* lines 643-655: exists({path}); an empty path is falsy
ExistsPath(ec, p) ==
    /\ p # <<>>
    /\ \E n \in DOMAIN ec : ec[n].re.set /\ Matches(ec[n].re.tpl, p)

\* lines 614-627: path(routeName); found = FALSE stands for the result false.
\* The last path whose list holds the name wins.
path(er, routeName) ==
    LET hits == {i \in 1..Len(er) : \E j \in 1..Len(er[i].v) : er[i].v[j] = routeName}
    IN IF hits = {} THEN [found |-> FALSE, path |-> <<>>]
       ELSE [found |-> TRUE, path |-> er[CHOOSE i \in hits : \A j \in hits : j <= i].k]

\* lines 694-704: getPath(routeName, args); found = FALSE stands for the
\* result false. The loop runs over `routes`, which holds the owning name of
\* each path, and returns at the first hit.
getPath(rts, routeName, args) ==
    LET hits == {i \in 1..Len(rts) : rts[i].v = routeName}
    IN IF hits = {} THEN [found |-> FALSE, path |-> <<>>]
       ELSE [found |-> TRUE,
             path |-> parse(rts[CHOOSE i \in hits : \A j \in hits : i <= j].k, args)]

\* ------------------------------------------------------ history facility
\* The handler the history facility selects for a fragment: the controller
\* method (lines 304-306) of the first route of `routes` whose matcher
\* accepts it; 0 when none does.
HandlerIdx(rts, fragment) ==
    IF \E i \in 1..Len(rts) : Matches(rts[i].k, fragment)
    THEN CHOOSE i \in 1..Len(rts) :
            Matches(rts[i].k, fragment) /\ \A j \in 1..(i - 1) : ~Matches(rts[j].k, fragment)
    ELSE 0

\* lines 304-306: the history facility calls the controller of the matched
\* route with the extracted arguments.
LoadUrl(m, rts, fragment) ==
    LET i == HandlerIdx(rts, fragment)
    IN IF i = 0 THEN m
       ELSE processControllers(m, rts[i].v, ParamsOf(Split(rts[i].k), Split(fragment)),
                               FALSE, 0, 0)

\* (a navigate that runs the controller before the browser's path is updated)
Navigate_PathLast(m, rts, p) ==
    LET fragment == IF CharAt0(p) = Slash THEN Substring1(p) ELSE p
        m1 == LoadUrl(Emit(m, Ev("navigate", "", 0, <<fragment>>, TRUE)), rts, fragment)
    IN [m1 EXCEPT !.loc = <<Slash>> \o fragment]

\* line 465: router.navigate(path, options): the history facility makes the
\* path the browser's path and, options.trigger being true, runs the matched
\* controller.
Navigate(m, rts, p) ==
    LET fragment == IF CharAt0(p) = Slash THEN Substring1(p) ELSE p
        m1 == Emit([m EXCEPT !.loc = <<Slash>> \o fragment],
                   Ev("navigate", "", 0, <<fragment>>, TRUE))
    IN LoadUrl(m1, rts, fragment)

\* --------------------------------------------------------------------- go
\* lines 434-440: the close guards of the previous routes; each one called
\* overwrites continueProcess with what it returns.
RECURSIVE CloseGuards(_, _, _, _)
CloseGuards(m, cr, name, continueProcess) ==
    IF cr = <<>> THEN [m |-> m, continueProcess |-> continueProcess]
    ELSE IF Head(cr) \in DOMAIN closeControllers /\ name # Head(cr)
         THEN CloseGuards(Emit(m, Ev("close", Head(cr), 0, <<<<closeControllers[Head(cr)]>>>>, FALSE)),
                          Tail(cr), name, closeControllers[Head(cr)])
    ELSE CloseGuards(m, Tail(cr), name, continueProcess)

\* The argument of go: a name ("" when none is given), and for the object
\* form a path and args.
GoArg(name, hasPath, p, args) == [name |-> name, hasPath |-> hasPath, path |-> p, args |-> args]

\* lines 400-470: go. The result is the call state m and what go returns
\* ("true", "false" or "undefined").
GoOp(m, ec, rts, in) ==
    LET name == in.name
        p0 == IF in.hasPath /\ CharAt0(in.path) = Slash THEN Substring1(in.path) ELSE in.path
        hasP == in.hasPath /\ p0 # <<>>                                \* path is truthy
    IN IF name = "" /\ ~hasP THEN [m |-> m, result |-> "false"]         \* lines 419-422
       ELSE IF (name # "" /\ ~ExistsName(ec, name)) \/ (hasP /\ ~ExistsPath(ec, p0))
       THEN [m |-> processControllers(m, "404", <<Substring1(m.loc)>>, FALSE, 0, 0),
             result |-> "undefined"]                                   \* lines 425-431
       ELSE
       LET g == CloseGuards(m, m.cr, name, "true")
       IN IF g.continueProcess # "true" THEN [m |-> g.m, result |-> "false"]  \* lines 443-445
          ELSE
          LET m1 == [g.m EXCEPT !.cr = <<>>]                           \* line 448
              found == path(extendedRoutes, name)
          IN IF hasP THEN [m |-> Navigate(m1, rts, p0), result |-> "true"]
             ELSE IF ~found.found
                  THEN IF in.args # <<>>
                       THEN [m |-> Throw(m1, "TypeError"), result |-> "undefined"]  \* false.split
                       ELSE [m |-> m1, result |-> "true"]              \* line 463: path === false
             ELSE [m |-> Navigate(m1, rts, parse(found.path, in.args)), result |-> "true"]

\* -------------------------------------------------------- host programs
PRoot == <<"/">>
PX == <<"/", "x">>
PY == <<"/", "y">>
PUser == <<"/", "u", "/", ":", "i">>
NoPath == <<>>

Plain(p) == Def(TRUE, p, "unset", <<>>, Fn, <<>>, "none")
Pathless == Def(FALSE, NoPath, "unset", <<>>, Fn, <<>>, "none")
Decl(name, def) == [name |-> name, def |-> def]

\* home and a secured admin route with triggers, with 403 and login routes
AuthScript ==
    << Decl("home", Plain(PRoot)),
       Decl("admin", Def(TRUE, PX, "true", <<TStr("t1")>>, Fn,
                         <<TObj("t2", TRUE, <<<<"4">>>>, FALSE)>>, "none")),
       Decl("403", Def(FALSE, NoPath, "unset", <<TStr("t1")>>, Fn, <<>>, "none")),
       Decl("login", Def(TRUE, PY, "false", <<>>, Fn, <<>>, "none")) >>

\* two routes on one path, the first secured, and no fallback route declared
BareScript ==
    << Decl("a", Def(TRUE, PX, "true", <<>>, Fn, <<>>, "none")),
       Decl("b", Plain(PX)) >>

\* close guards: a and c share a path, b has its own
GuardScript ==
    << Decl("a", Def(TRUE, PX, "unset", <<>>, Fn, <<>>, "false")),
       Decl("c", Def(TRUE, PX, "unset", <<>>, Fn, <<>>, "true")),
       Decl("b", Def(TRUE, PY, "unset", <<>>, Fn, <<>>, "undefined")),
       Decl("404", Pathless) >>

\* an alias with triggers of its own to a secured, parameterised route
AliasScript ==
    << Decl("home", Def(TRUE, PRoot, "unset", <<TStr("t1")>>, Alias("user"),
                        <<TStr("t2")>>, "none")),
       Decl("user", Def(TRUE, PUser, "true", <<TStr("t3")>>, Fn, <<>>, "none")),
       Decl("403", Pathless) >>

\* cache-marked triggers, one of them named like a route
CacheScript ==
    << Decl("a", Def(TRUE, PX, "unset", <<TObj("t1", FALSE, <<>>, TRUE)>>, Fn,
                     <<TObj("t1", FALSE, <<>>, TRUE), TStr("t1")>>, "none")),
       Decl("b", Def(TRUE, PY, "unset", <<TObj("a", FALSE, <<>>, TRUE)>>, Fn,
                     <<TObj("t2", TRUE, <<<<"4">>>>, TRUE)>>, "none")) >>

\* names registered more than once (on a free path, on a path another name
\* owns, on a path the name owns itself), and a definition that is not an
\* object
DupScript ==
    << Decl("a", Plain(PX)),
       Decl("b", Plain(PX)),
       Decl("a", Plain(PY)),
       Decl("c", Def(FALSE, NoPath, "unset", <<>>, NoAction, <<>>, "none")),
       Decl("b", Plain(PY)),
       Decl("a", Plain(PX)) >>

\* routes that refer to each other in a cycle, and a 403 route that is
\* itself secured
CycleScript ==
    << Decl("a", Def(TRUE, PX, "unset", <<>>, Alias("b"), <<>>, "none")),
       Decl("b", Def(TRUE, PY, "unset", <<TStr("a")>>, Fn, <<>>, "none")),
       Decl("c", Def(TRUE, PRoot, "true", <<TStr("t1")>>, Fn, <<>>, "none")),
       Decl("403", Def(FALSE, NoPath, "true", <<>>, Fn, <<>>, "none")) >>

\* a secured route with several triggers in a list, sharing its path with an
\* open route, and both fallback routes declared
TriggerScript ==
    << Decl("a", Def(TRUE, PX, "true", <<TStr("t1"), TStr("t2")>>, Fn,
                     <<TStr("t3"), TStr("t1")>>, "none")),
       Decl("b", Def(TRUE, PX, "unset", <<TStr("t2")>>, Fn, <<>>, "none")),
       Decl("403", Pathless),
       Decl("login", Pathless) >>

\* two routes on one path, the second of them reached by name: as the target
\* of an alias and as a trigger
ShareScript ==
    << Decl("a", Plain(PX)),
       Decl("b", Plain(PX)),
       Decl("c", Def(TRUE, PY, "unset", <<>>, Alias("b"), <<>>, "none")),
       Decl("home", Def(TRUE, PRoot, "unset", <<TStr("b")>>, Fn, <<>>, "none")) >>

\* two routes on one path, the second with a trigger named like the first
LoopScript ==
    << Decl("a", Plain(PX)),
       Decl("b", Def(TRUE, PX, "unset", <<TStr("a")>>, Fn, <<>>, "none")) >>

Scripts ==
    {AuthScript, BareScript, GuardScript, AliasScript, CacheScript, DupScript, CycleScript,
     TriggerScript, ShareScript, LoopScript}

RouteNames == {"home", "admin", "403", "login", "404", "a", "b", "c", "user"}
TriggerNames == {"t1", "t2", "t3"}

\* The paths the browser can be sent to.
Fragments == {<<>>, <<"x">>, <<"y">>, <<"u", "/", "4">>, <<"z">>}

\* The arguments go() is called with.
GoArgs ==
    {GoArg(n, FALSE, <<>>, <<>>) : n \in RouteNames \cup {"nope", ""}}
    \cup {GoArg("user", FALSE, <<>>, <<<<"4">>>>)}
    \cup {GoArg("", TRUE, p, <<>>) : p \in {PRoot, PX, <<"z">>}}

\* The triggers the host hands to processTriggers itself.
HostTriggers ==
    {TStr("t1"), TStr("a"), TObj("a", FALSE, <<>>, TRUE), TObj("t2", TRUE, <<<<"4">>>>, FALSE)}

\* What getPath is called with.
GetPathArgs ==
    {[name |-> n, args |-> args] : n \in RouteNames \cup {"nope"}, args \in {<<>>, <<<<"4">>>>}}

\* What start is handed as app: a Marionette application or nothing.
StartApps == {"marionette", "none"}

\* The page the router is loaded on: its path, and the route a previous page
\* load stored before a login redirect (<<>> when none).
PageLoads ==
    {[pathname |-> PRoot, storedRoute |-> <<>>],
     [pathname |-> PX, storedRoute |-> <<>>],
     [pathname |-> PX, storedRoute |-> <<"y">>]}

\* The templates and argument lists parse() is called with.
ParseTemplates == {<<>>, <<"x">>, <<"u", "/", ":", "i">>, <<":", "i", "/", "e", "/", ":", "j">>}
ParseValues == {<<"4">>, <<"7">>, <<>>, <<"a", "/", "b">>}
ParseArgs ==
    {<<>>} \cup {<<a>> : a \in ParseValues} \cup {<<a, b>> : a \in ParseValues, b \in ParseValues}

\* ------------------------------------------------------------------ state
NoCall == [op |-> "none", arg |-> <<>>, result |-> "undefined", thrown |-> FALSE]
Call(op, arg, result, thrown) == [op |-> op, arg |-> arg, result |-> result, thrown |-> thrown]

\* lines 21-57, 64-72, 105, 111: the module's initial values and the default
\* options. The host program (its route() calls), the dispatcher it may
\* assign, the page's path and the route a previous page load stored are the
\* inputs.
Init ==
    /\ phase = "declare"
    /\ script \in Scripts
    /\ routes = <<>>
    /\ extendedRoutes = <<>>
    /\ extendedController = <<>>
    /\ closeControllers = <<>>
    /\ wrapperDefs = <<>>
    /\ dispatcher \in {"null", "custom"}
    /\ currentRoutes = <<>>
    /\ cachedTriggers = <<>>
    /\ authed = FALSE
    /\ redirectToLogin = FALSE
    /\ \E env \in PageLoads : pathname = env.pathname /\ storedRoute = env.storedRoute
    /\ events = <<>>
    /\ ret = NoCall
    /\ cachedSends = [n \in TriggerNames \cup RouteNames |-> 0]
    /\ nesting = 0

\* The call state a call starts from.
Machine == [cr |-> currentRoutes, ct |-> cachedTriggers, st |-> storedRoute,
            loc |-> pathname, auth |-> authed, redir |-> redirectToLogin,
            ev |-> <<>>, thrown |-> FALSE, deep |-> 0]

\* line 536: the sends of cache-marked triggers among the events
CachedSendsOf(ev, n) ==
    Cardinality({i \in 1..Len(ev) : ev[i].type = "vent" /\ ev[i].flag /\ ev[i].name = n})

\* What a call leaves behind.
Commit(m, call) ==
    /\ currentRoutes' = m.cr
    /\ cachedTriggers' = m.ct
    /\ storedRoute' = m.st
    /\ pathname' = m.loc
    /\ events' = m.ev
    /\ ret' = call
    /\ cachedSends' = [n \in DOMAIN cachedSends |-> cachedSends[n] + CachedSendsOf(m.ev, n)]
    /\ nesting' = m.deep

Registry == [routes |-> routes, extendedRoutes |-> extendedRoutes,
             extendedController |-> extendedController,
             closeControllers |-> closeControllers, wrapperDefs |-> wrapperDefs]

\* lines 265-390: the host's next route() call
Route ==
    /\ phase = "declare"
    /\ script # <<>>
    /\ LET reg == RouteOp(Registry, Head(script).name, Head(script).def)
       IN /\ routes' = reg.routes
          /\ extendedRoutes' = reg.extendedRoutes
          /\ extendedController' = reg.extendedController
          /\ closeControllers' = reg.closeControllers
          /\ wrapperDefs' = reg.wrapperDefs
    /\ script' = Tail(script)
    /\ events' = <<>>
    /\ ret' = Call("route", Head(script).name, "undefined", FALSE)
    /\ nesting' = 0
    /\ UNCHANGED <<phase, dispatcher, currentRoutes, cachedTriggers, authed, redirectToLogin,
                   pathname, storedRoute, cachedSends>>

\* lines 154-185: history is started on the page's path; an unmatched path
\* goes to the 404 route, a stored route is resumed.
StartHistory(m, ec, rts) ==
    LET fragment == Substring1(m.loc)
        existingRoute == HandlerIdx(rts, fragment) # 0
        m1 == LoadUrl(m, rts, fragment)
    IN IF m1.thrown THEN m1
       ELSE IF ~existingRoute
            THEN processControllers(m1, "404", <<Substring1(m1.loc)>>, FALSE, 0, 0)
       ELSE IF m1.st # <<>>
            THEN GoOp([m1 EXCEPT !.st = <<>>], ec, rts, GoArg("", TRUE, m1.st, <<>>)).m
       ELSE m1

\* lines 117-186: start(app, options). app is a Marionette application
\* ("marionette"), a Backbone.Events object ("events") or missing ("none").
\* In the else branch of line 133 the call this.log(...) throws: the router
\* object has no log method (only this.options.log).
Start(app, optAuthed, optRedirect) ==
    /\ phase = "declare"
    /\ script = <<>>
    /\ authed' = optAuthed                                         \* line 121
    /\ redirectToLogin' = optRedirect
    /\ IF dispatcher = "null" /\ app # "none"
       THEN LET ec == Compile(extendedController, routes)
                m == StartHistory([Machine EXCEPT !.auth = optAuthed, !.redir = optRedirect],
                                  ec, routes)
            IN /\ dispatcher' = (IF app = "marionette" THEN "app.vent" ELSE "app")
               /\ extendedController' = ec
               /\ phase' = "started"
               /\ Commit(m, Call("start", app, "undefined", m.thrown))
       ELSE /\ phase' = "failed"
            /\ Commit(Throw(Machine, "TypeError"), Call("start", app, "undefined", TRUE))
            /\ UNCHANGED <<dispatcher, extendedController>>
    /\ UNCHANGED <<script, routes, extendedRoutes, closeControllers, wrapperDefs>>

Frame == UNCHANGED <<phase, script, routes, extendedRoutes, extendedController,
                     closeControllers, wrapperDefs, dispatcher, authed, redirectToLogin>>

\* lines 400-470: the host calls go
Go(in) ==
    /\ phase = "started"
    /\ Len(currentRoutes) <= MaxStack
    /\ in.name \in DOMAIN extendedController \cup {"nope", ""}
    /\ LET r == GoOp(Machine, extendedController, routes, in)
       IN Commit(r.m, Call("go", in, IF r.m.thrown THEN "undefined" ELSE r.result, r.m.thrown))
    /\ Frame

\* lines 304-306: the history facility reports that the browser's path
\* changed (a link, the back button) and runs the matched controller.
UrlChange(fragment) ==
    /\ phase = "started"
    /\ Len(currentRoutes) < MaxStack
    /\ HandlerIdx(routes, fragment) # 0 \/ fragment = <<"z">>
    /\ LET m == LoadUrl([Machine EXCEPT !.loc = <<Slash>> \o fragment], routes, fragment)
       IN Commit(m, Call("url", fragment, "undefined", m.thrown))
    /\ Frame

\* lines 478-491: the host calls processTriggers with one trigger
HostTrigger(t) ==
    /\ phase = "started"
    /\ Len(currentRoutes) <= MaxStack
    /\ LET m == processTriggers(Machine, <<t>>, 0, 0)
       IN Commit(m, Call("processTriggers", t, "undefined", m.thrown))
    /\ Frame

\* lines 603-605: clearCache
ClearCache ==
    /\ phase = "started"
    /\ cachedTriggers' = <<>>
    /\ cachedSends' = [n \in DOMAIN cachedSends |-> 0]
    /\ events' = <<>>
    /\ ret' = Call("clearCache", <<>>, "undefined", FALSE)
    /\ nesting' = 0
    /\ UNCHANGED <<currentRoutes, storedRoute, pathname>>
    /\ Frame

\* line 69: the host updates options.authed when the login state changes
SetAuthed(b) ==
    /\ phase = "started"
    /\ authed # b
    /\ authed' = b
    /\ events' = <<>>
    /\ ret' = Call("authed", <<>>, "undefined", FALSE)
    /\ nesting' = 0
    /\ UNCHANGED <<phase, script, routes, extendedRoutes, extendedController, closeControllers,
                   wrapperDefs, dispatcher, redirectToLogin, currentRoutes, cachedTriggers,
                   pathname, storedRoute, cachedSends>>

\* lines 666-685: the host calls parse
ParseCall(tpl, args) ==
    /\ events' = <<>>
    /\ ret' = Call("parse", [path |-> tpl, args |-> args], parse(tpl, args), FALSE)
    /\ nesting' = 0
    /\ UNCHANGED <<phase, script, routes, extendedRoutes, extendedController, closeControllers,
                   wrapperDefs, dispatcher, authed, redirectToLogin, currentRoutes,
                   cachedTriggers, pathname, storedRoute, cachedSends>>

\* lines 694-704: the host calls getPath
GetPathCall(in) ==
    /\ events' = <<>>
    /\ ret' = Call("getPath", in, getPath(routes, in.name, in.args), FALSE)
    /\ nesting' = 0
    /\ UNCHANGED <<phase, script, routes, extendedRoutes, extendedController, closeControllers,
                   wrapperDefs, dispatcher, authed, redirectToLogin, currentRoutes,
                   cachedTriggers, pathname, storedRoute, cachedSends>>

Next ==
    \/ Route
    \/ \E app \in StartApps :
          \E optAuthed \in BOOLEAN : \E optRedirect \in BOOLEAN : Start(app, optAuthed, optRedirect)
    \/ \E in \in GoArgs : Go(in)
    \/ \E f \in Fragments : UrlChange(f)
    \/ \E t \in HostTriggers : HostTrigger(t)
    \/ ClearCache
    \/ \E b \in BOOLEAN : SetAuthed(b)

Spec == Init /\ [][Next]_vars

\* parse is a pure function: its calls alone, from any initial state
NextParse == \E tpl \in ParseTemplates : \E args \in ParseArgs : ParseCall(tpl, args)

SpecParse == Init /\ [][NextParse]_vars

\* getPath reads the registry only: its calls between the host's route() calls
NextGetPath ==
    \/ Route
    \/ \E in \in GetPathArgs : GetPathCall(in)

SpecGetPath == Init /\ [][NextGetPath]_vars

\* ================================================================ claims
EvIdx == 1..Len(events)

\* The events an entry emitted itself.
CountBy(type, id) == Cardinality({i \in EvIdx : events[i].type = type /\ events[i].by = id})

\* The entry of event i was invoked although its route requires a logged-in
\* session and the session is logged out.
SecuredInvoke(i) ==
    /\ events[i].type = "invoke"
    /\ wrapperDefs[events[i].by].def.authed = "true"
    /\ ~authed

\* C1: whenever the handler-chain entry of a route registered with authed =
\* true is invoked while the session is logged out, the entry runs neither its
\* action nor any of its before/after triggers, and makes exactly one fallback
\* dispatch for that invocation, straight away: of the login route when
\* redirectToLogin is enabled, of the 403 route otherwise.
C1_GateShortCircuits ==
    \A i \in EvIdx :
        SecuredInvoke(i) =>
            LET id == events[i].by
            IN /\ i + 1 <= Len(events)
               /\ events[i + 1].type = "dispatch"
               /\ events[i + 1].by = id
               /\ events[i + 1].name = (IF redirectToLogin THEN "login" ELSE "403")
               /\ CountBy("dispatch", id) = CountBy("invoke", id)
               /\ CountBy("action", id) = 0
               /\ CountBy("vent", id) = 0

\* C1 witness: a secured entry with triggers and an action was invoked while
\* logged out and the 403 route's own entry ran in its place.
C1_Witness ==
    \E i \in EvIdx :
        /\ SecuredInvoke(i)
        /\ wrapperDefs[events[i].by].def.before # <<>>
        /\ wrapperDefs[events[i].by].def.action.kind = "fn"
        /\ \E j \in EvIdx : j > i /\ events[j].type = "action" /\ events[j].name = "403"

\* ---------------------------------------------------------------- C2
\* The last call was go(name) for a route registered (once) with a path and
\* authed = true, made while logged out with redirectToLogin disabled.
GoToSecured ==
    /\ ret.op = "go"
    /\ ret.arg.name # ""
    /\ ~ret.arg.hasPath
    /\ Cardinality({id \in 1..Len(wrapperDefs) : wrapperDefs[id].name = ret.arg.name}) = 1
    /\ \E id \in 1..Len(wrapperDefs) :
          /\ wrapperDefs[id].name = ret.arg.name
          /\ wrapperDefs[id].def.authed = "true"
          /\ wrapperDefs[id].def.hasPath
    /\ ~authed
    /\ ~redirectToLogin

Dispatched403(i) == events[i].type = "dispatch" /\ events[i].name = "403"

Navigated(i) == events[i].type = "navigate"

\* C2 as claimed: go(name) for a route registered with authed = true, while
\* logged out with redirectToLogin disabled, dispatches the 403 route and
\* navigate is not applied to the forbidden route's path.
C2_Original ==
    (GoToSecured /\ ~ret.thrown /\ \E i \in EvIdx : Dispatched403(i)) => ~\E k \in EvIdx : Navigated(k)

\* C2 as amended: for a route registered once, with a path and authed = true,
\* such a go(name) that passes resolving and guarding hands the route's path
\* (with the arguments injected) to navigate first, so the
\* browser path held by the history facility becomes the forbidden route's
\* path; every 403 dispatch comes after that and carries the new raw path.
C2_NavigatesBeforeGate ==
    (GoToSecured /\ ~ret.thrown /\ ret.result = "true") =>
        \E k \in EvIdx :
            /\ Navigated(k)
            /\ \E id \in 1..Len(wrapperDefs) :
                  /\ wrapperDefs[id].name = ret.arg.name
                  /\ events[k].args = <<parse(wrapperDefs[id].def.path, ret.arg.args)>>
            /\ pathname = <<Slash>> \o events[k].args[1]
            /\ \A j \in EvIdx :
                  Dispatched403(j) => j > k /\ events[j].args = <<events[k].args[1]>>

\* C2 witness: go("admin") while logged out ended with the browser on the
\* admin path and the 403 route dispatched with that path.
C2_Witness ==
    /\ GoToSecured
    /\ ret.arg.name = "admin"
    /\ pathname = PX
    /\ \E j \in EvIdx : Dispatched403(j) /\ events[j].args = <<<<"x">>>>

\* ---------------------------------------------------------------- C3
\* C3 as claimed: go() with an unregistered route name dispatches the 404
\* route with the current raw path, returns false, and does not throw,
\* whether or not a 404 route was declared.
C3_Original ==
    (ret.op = "go" /\ ret.arg.name # "" /\ ret.arg.name \notin DOMAIN extendedController) =>
        /\ ~ret.thrown
        /\ ret.result = "false"
        /\ \E i \in EvIdx :
              /\ events[i].type = "dispatch"
              /\ events[i].name = "404"
              /\ events[i].args = <<Substring1(pathname)>>

\* ---------------------------------------------------------------- C4
\* The entries registered with the path template tpl, in registration order.
EntriesOn(tpl) ==
    {id \in 1..Len(wrapperDefs) : wrapperDefs[id].def.hasPath /\ wrapperDefs[id].def.path = tpl}

UniqueNames ==
    \A a, b \in 1..Len(wrapperDefs) : a # b => wrapperDefs[a].name # wrapperDefs[b].name

\* C4 as claimed (for route names that are unique, as route() asks): when
\* two or more routes are registered with the identical path template, a
\* path-match dispatch for that path invokes the handler-chain entry of every
\* one of them, in registration order.
C4_Original ==
    (ret.op = "url" /\ UniqueNames /\ HandlerIdx(routes, ret.arg) # 0) =>
        LET shared == EntriesOn(routes[HandlerIdx(routes, ret.arg)].k)
        IN Cardinality(shared) >= 2 =>
            /\ \A a \in shared : \E i \in EvIdx : events[i].type = "invoke" /\ events[i].by = a
            /\ \A a, b \in shared :
                  a < b => \E i, j \in EvIdx :
                              /\ i < j
                              /\ events[i].type = "invoke" /\ events[i].by = a
                              /\ events[j].type = "invoke" /\ events[j].by = b

\* ---------------------------------------------------------------- C5
\* The entry of event i is an alias whose own gate lets the session through.
AliasInvoke(i) ==
    /\ events[i].type = "invoke"
    /\ wrapperDefs[events[i].by].def.action.kind = "alias"
    /\ ~(wrapperDefs[events[i].by].def.authed = "true" /\ ~authed)
    /\ ~(wrapperDefs[events[i].by].def.authed = "false" /\ authed)

\* The entry of event i was invoked by a delegation or trigger and the
\* session does not satisfy its authed requirement.
DelegatedGateFails(i) ==
    /\ events[i].type = "invoke"
    /\ events[i].flag
    /\ \/ wrapperDefs[events[i].by].def.authed = "true" /\ ~authed
       \/ wrapperDefs[events[i].by].def.authed = "false" /\ authed

\* C5: an alias entry, when invoked, sends none of its own before/after
\* triggers and runs no action of its own; it dispatches the chain of the
\* route its action names, once per invocation, with the arguments it was
\* given; and an entry reached that way whose authed requirement the session
\* fails makes its fallback dispatch instead of running.
C5_AliasDelegates ==
    /\ \A i \in EvIdx :
          AliasInvoke(i) =>
              LET id == events[i].by
              IN /\ i + 1 <= Len(events)
                 /\ events[i + 1].type = "dispatch"
                 /\ events[i + 1].by = id
                 /\ events[i + 1].name = wrapperDefs[id].def.action.target
                 /\ events[i + 1].args = events[i].args
                 /\ events[i + 1].flag
                 /\ CountBy("dispatch", id) = CountBy("invoke", id)
                 /\ CountBy("vent", id) = 0
                 /\ CountBy("action", id) = 0
    /\ \A i \in EvIdx :
          DelegatedGateFails(i) =>
              /\ i + 1 <= Len(events)
              /\ events[i + 1].type = "dispatch"
              /\ events[i + 1].by = events[i].by
              /\ events[i + 1].name \in {"403", "login"}
              /\ CountBy("action", events[i].by) = 0

\* C5 witness: an alias with before and after triggers of its own was
\* invoked, and the secured route it names refused the logged-out session.
C5_Witness ==
    \E i \in EvIdx :
        /\ AliasInvoke(i)
        /\ wrapperDefs[events[i].by].def.before # <<>>
        /\ \E j \in EvIdx :
              /\ j > i
              /\ DelegatedGateFails(j)
              /\ events[j].name = wrapperDefs[events[i].by].def.action.target

\* ---------------------------------------------------------------- C6
\* C6: between two calls of clearCache (and before the first), a cache-marked
\* trigger of a given name is sent to the event dispatcher at most once,
\* however many times it is processed.
C6_CachedAtMostOnce == \A n \in DOMAIN cachedSends : cachedSends[n] <= 1

\* C6 witness: a cache-marked trigger that was already sent once was processed
\* again and nothing was sent.
C6_Witness ==
    /\ ret.op = "processTriggers"
    /\ ret.arg.cache
    /\ cachedSends[ret.arg.name] = 1
    /\ events = <<>>

\* ---------------------------------------------------------------- C7
\* C7 as claimed: when the close guard of a route of CurrentRouteStack other
\* than the target returns false during go, go returns false and navigate is
\* not called.
C7_Original ==
    (/\ ret.op = "go"
     /\ ~ret.thrown
     /\ \E i \in EvIdx :
           /\ events[i].type = "close"
           /\ events[i].name # ret.arg.name
           /\ events[i].args = <<<<"false">>>>)
    => (ret.result = "false" /\ ~\E k \in EvIdx : Navigated(k))

\* ---------------------------------------------------------------- C8
\* C8 as claimed: every call of go returns a boolean, true exactly when the
\* resolved path was handed to navigate and false in every other case.
C8_Original ==
    (ret.op = "go" /\ ~ret.thrown) =>
        /\ ret.result \in {"true", "false"}
        /\ ret.result = "true" <=> \E k \in EvIdx : Navigated(k)

\* ---------------------------------------------------------------- C9
\* C9 as claimed: with a custom dispatcher assigned before start(app) is called
\* with an application, start completes startup.
C9_Original ==
    (ret.op = "start" /\ ret.arg = "marionette" /\ dispatcher = "custom") =>
        (phase = "started" /\ ~ret.thrown)

\* --------------------------------------------------------------- C10
Param(part) == part # <<>> /\ part[1] = ":"

ParamsUpTo(tp, i) == Cardinality({j \in 1..i : Param(tp[j])})

SlashCount(s) == Cardinality({i \in 1..Len(s) : s[i] = "/"})

RECURSIVE SlashesIn(_, _)
SlashesIn(args, n) == IF n = 0 THEN 0 ELSE SlashCount(args[n]) + SlashesIn(args, n - 1)

\* The result holds the template's segments one for one, each parameter
\* segment replaced by the next argument.
Substituted(tpl, args, result) ==
    LET tp == Split(tpl)
        rp == Split(result)
    IN /\ Len(rp) = Len(tp)
       /\ \A i \in 1..Len(tp) :
            rp[i] = (IF Param(tp[i]) THEN args[ParamsUpTo(tp, i)] ELSE tp[i])

ParseCovered ==
    /\ ret.op = "parse"
    /\ Len(ret.arg.args) >= ParamsUpTo(Split(ret.arg.path), Len(Split(ret.arg.path)))

\* C10 as claimed: for every template and every args at least as long as the
\* number of parameter segments, the result is the template with its i-th
\* parameter segment replaced by args[i], the other segments unchanged and
\* the number of segments preserved; with empty args the template is returned.
C10_Original ==
    ParseCovered =>
        /\ Substituted(ret.arg.path, ret.arg.args, ret.result)
        /\ ret.arg.args = <<>> => ret.result = ret.arg.path

\* C10 as amended: the number of segments of the result is that of the
\* template plus the number of "/" in the substituted arguments; when no
\* substituted argument holds a "/", the result is the template with its i-th
\* parameter segment replaced by args[i] and the other segments unchanged;
\* with empty args the template is returned unchanged.
C10_ParseSubstitutes ==
    ParseCovered =>
        LET tp == Split(ret.arg.path)
            used == ParamsUpTo(tp, Len(tp))
        IN /\ Len(Split(ret.result)) = Len(tp) + SlashesIn(ret.arg.args, used)
           /\ SlashesIn(ret.arg.args, used) = 0 =>
                 Substituted(ret.arg.path, ret.arg.args, ret.result)
           /\ ret.arg.args = <<>> => ret.result = ret.arg.path

\* C10 witness: a template with two parameter segments was filled from two
\* different arguments.
C10_Witness ==
    /\ ret.op = "parse"
    /\ ret.arg.path = <<":", "i", "/", "e", "/", ":", "j">>
    /\ ret.arg.args = <<<<"4">>, <<"7">>>>
    /\ ret.result = <<"4", "/", "e", "/", "7">>

\* --------------------------------------------------------------- C11
\* The entries registered under the name n with a path.
EntriesNamed(n) ==
    {id \in 1..Len(wrapperDefs) : wrapperDefs[id].name = n /\ wrapperDefs[id].def.hasPath}

\* C11 as claimed, for the names that were registered with a path: for every
\* route name that exists in the registry, getPath(routeName, args) returns
\* the path the name was registered with, with args injected, and not false.
C11_Original ==
    (/\ ret.op = "getPath"
     /\ ExistsName(extendedController, ret.arg.name)
     /\ EntriesNamed(ret.arg.name) # {})
    => /\ ret.result.found
       /\ \E id \in EntriesNamed(ret.arg.name) :
             ret.result.path = parse(wrapperDefs[id].def.path, ret.arg.args)

\* --------------------------------------------------------------- C12
\* The close guards the events ev record as invoked, and those that returned
\* false.
GuardsInvoked(ev) == {i \in 1..Len(ev) : ev[i].type = "close"}

GuardsVetoing(ev) == {i \in GuardsInvoked(ev) : ev[i].args = <<<<"false">>>>}

\* C12 as claimed: when several close guards are invoked by go() and any one of
\* them returns false, whatever its position and whatever the later guards
\* return, go returns false, CurrentRouteStack is left as it was and the
\* history facility is not touched.
C12_Original ==
    [][(/\ ret'.op = "go"
        /\ ~ret'.thrown
        /\ Cardinality(GuardsInvoked(events')) >= 2
        /\ GuardsVetoing(events') # {})
       => /\ ret'.result = "false"
          /\ currentRoutes' = currentRoutes
          /\ pathname' = pathname
          /\ ~\E k \in 1..Len(events') : events'[k].type = "navigate"]_vars

\* --------------------------------------------------------------- C13
\* The last call was a go() whose target resolves: a name or a path was given,
\* the name given is registered and the path given is matched.
GoResolves ==
    /\ ret.op = "go"
    /\ LET in == ret.arg
           p0 == IF in.hasPath /\ CharAt0(in.path) = Slash THEN Substring1(in.path) ELSE in.path
           hasP == in.hasPath /\ p0 # <<>>
       IN /\ in.name # "" \/ hasP
          /\ in.name # "" => ExistsName(extendedController, in.name)
          /\ hasP => ExistsPath(extendedController, p0)

\* C13 as claimed: a go() whose target resolves is abandoned only if a close
\* guard returned the value false; when every invoked guard returns something
\* other than false (no value included), the navigation is committed and go
\* returns true.
C13_Original ==
    (GoResolves /\ ~ret.thrown /\ GuardsVetoing(events) = {}) => ret.result = "true"

\* --------------------------------------------------------------- C14
\* The names of the routes the last go() was aimed at: the name given, or the
\* names registered on the path template that the literal path given matches.
TargetNames ==
    LET in == ret.arg
        p0 == IF in.hasPath /\ CharAt0(in.path) = Slash THEN Substring1(in.path) ELSE in.path
    IN IF in.name # "" THEN {in.name}
       ELSE {wrapperDefs[id].name : id \in {j \in 1..Len(wrapperDefs) :
                                              /\ wrapperDefs[j].def.hasPath
                                              /\ Matches(wrapperDefs[j].def.path, p0)}}

\* C14 as claimed: during a go() whose target resolves, the close guard of the
\* target route itself is never invoked, whether the target was given by name
\* or by literal path.
C14_Original ==
    (GoResolves /\ ~ret.thrown) =>
        \A i \in GuardsInvoked(events) : events[i].name \notin TargetNames

\* --------------------------------------------------------------- C15
\* The record of the trigger name n in the cache ct is marked done.
CacheDone(ct, n) == \E i \in 1..Len(ct) : ct[i].name = n /\ ct[i].done

\* The events ev start with the trigger-originated dispatch of the chain of n.
DispatchesFirst(ev, n) ==
    /\ ev # <<>>
    /\ ev[1].type = "dispatch"
    /\ ev[1].name = n
    /\ ev[1].flag

\* C15 as claimed: a processed trigger whose name is a registered route
\* dispatches that route's handler chain on every call, cache-marked or not.
C15_Original ==
    (ret.op = "processTriggers" /\ ret.arg.name \in DOMAIN extendedController) =>
        DispatchesFirst(events, ret.arg.name)

\* C15 as amended: for a trigger given as an object the cache is consulted
\* first. A cache-marked trigger whose name is a registered route dispatches
\* the route's chain only when its cache record is not yet done, and leaves
\* the record done; once done it is skipped, and nothing at all happens, until
\* clearCache. A trigger given as a string is not cached: when its name is a
\* registered route it dispatches the chain on every call.
C15_CacheBeforeRoute ==
    [][(ret'.op = "processTriggers" /\ ret'.arg.name \in DOMAIN extendedController) =>
          IF ret'.arg.kind = "object" /\ ret'.arg.cache
          THEN /\ CacheDone(cachedTriggers', ret'.arg.name)
               /\ IF CacheDone(cachedTriggers, ret'.arg.name)
                  THEN events' = <<>> /\ cachedTriggers' = cachedTriggers
                  ELSE DispatchesFirst(events', ret'.arg.name)
          ELSE DispatchesFirst(events', ret'.arg.name)]_vars

\* C15 witness: a cache-marked trigger named like a registered route was
\* processed with its record already done, and the route did not run.
C15_Witness ==
    /\ ret.op = "processTriggers"
    /\ ret.arg.kind = "object"
    /\ ret.arg.cache
    /\ ret.arg.name \in DOMAIN extendedController
    /\ CacheDone(cachedTriggers, ret.arg.name)
    /\ events = <<>>

\* --------------------------------------------------------------- C16
\* The names of the entries the events ev record as invoked outside a
\* trigger, in order.
NonTriggerNames(ev) ==
    LET sel == SelectSeq(ev, LAMBDA e : e.type = "invoke" /\ ~e.flag)
    IN [i \in 1..Len(sel) |-> sel[i].name]

\* Event i of ev is the fallback dispatch (403 or login) an entry makes when
\* the session fails its authed requirement.
FallbackDispatch(ev, i) ==
    /\ ev[i].type = "dispatch"
    /\ ev[i].name \in {"403", "login"}
    /\ ~ev[i].flag
    /\ ev[i].by # 0
    /\ wrapperDefs[ev[i].by].def.authed # "unset"

\* The last call processed a trigger named like a registered route, and the
\* route's chain was dispatched.
RouteTriggered(r, ev) ==
    /\ r.op = "processTriggers"
    /\ r.arg.name \in DOMAIN extendedController
    /\ DispatchesFirst(ev, r.arg.name)

NoSendFor(ev, n) == ~\E k \in 1..Len(ev) : ev[k].type = "vent" /\ ev[k].name = n

\* C16 as claimed: processing a trigger whose name is a registered route runs
\* the route's chain, sends nothing for that trigger name to the event
\* dispatcher and adds no route name to CurrentRouteStack, for every route
\* definition and session state.
C16_Original ==
    [][RouteTriggered(ret', events') =>
          /\ NoSendFor(events', ret'.arg.name)
          /\ currentRoutes' = currentRoutes]_vars

\* C16 as amended: processing a trigger whose name is a registered route runs
\* the route's chain and sends nothing for that trigger name to the event
\* dispatcher. The entries invoked as triggers add nothing to
\* CurrentRouteStack; but when such an entry fails the auth gate, its
\* fallback dispatch of the 403 or login route is not trigger-originated and
\* the names of the entries it invokes are appended to CurrentRouteStack.
C16_TriggeredRoute ==
    [][RouteTriggered(ret', events') =>
          /\ NoSendFor(events', ret'.arg.name)
          /\ (Len(events') >= 2 /\ events'[2].type = "invoke") => events'[2].flag
          /\ currentRoutes' = currentRoutes \o NonTriggerNames(events')
          /\ \A j \in 1..Len(events') :
                (events'[j].type = "invoke" /\ ~events'[j].flag) =>
                    \E i \in 1..(j - 1) : FallbackDispatch(events', i)]_vars

\* C16 witness: a trigger named like a secured route was processed while
\* logged out; the route's entries ran as triggers and the 403 route ended up
\* on CurrentRouteStack.
C16_Witness ==
    /\ RouteTriggered(ret, events)
    /\ ~ret.thrown
    /\ \E i \in EvIdx : events[i].type = "invoke" /\ events[i].flag /\ SecuredInvoke(i)
    /\ \E j \in EvIdx : events[j].type = "invoke" /\ ~events[j].flag /\ events[j].name = "403"
    /\ currentRoutes # <<>>
    /\ currentRoutes[Len(currentRoutes)] = "403"

\* --------------------------------------------------------------- C17
\* The entry of event i passes the auth gate and has a callable action.
RunningInvoke(i) ==
    /\ events[i].type = "invoke"
    /\ LET def == wrapperDefs[events[i].by].def
       IN /\ ~(def.authed = "true" /\ ~authed)
          /\ ~(def.authed = "false" /\ authed)
          /\ def.action.kind = "fn"

\* The next invocation of the entry of event i (past the end when none).
NextInvoke(i) ==
    LET later == {j \in EvIdx : j > i /\ events[j].type = "invoke" /\ events[j].by = events[i].by}
    IN IF later = {} THEN Len(events) + 1
       ELSE CHOOSE j \in later : \A k \in later : j <= k

\* What the entry of event i did itself in that invocation: its trigger
\* sends, its trigger dispatches and its action, in order.
OwnEvents(i) ==
    LET idx == {k \in EvIdx : k > i /\ k < NextInvoke(i) /\ events[k].by = events[i].by
                                    /\ events[k].type \in {"vent", "dispatch", "action"}}
        own == SelectSeq([k \in EvIdx |-> [at |-> k, e |-> events[k]]],
                         LAMBDA x : x.at \in idx)
    IN [k \in 1..Len(own) |-> own[k].e]

CacheMarked(t) == t.kind = "object" /\ t.cache

\* The event e is what processing the trigger t leaves: a send of its name, or
\* the trigger-originated dispatch of the route of its name.
EventOf(e, t) ==
    /\ e.name = t.name
    /\ \/ e.type = "vent" /\ e.flag = CacheMarked(t)
       \/ e.type = "dispatch" /\ e.flag

\* The events evs are those of the triggers trigs, one for one and in list
\* order; a cache-marked trigger may have been skipped, and when an exception
\* ended the call (partial) the list may have been cut short.
RECURSIVE InListOrder(_, _, _)
InListOrder(evs, trigs, partial) ==
    IF trigs = <<>> THEN evs = <<>>
    ELSE IF evs # <<>> /\ EventOf(Head(evs), Head(trigs))
         THEN InListOrder(Tail(evs), Tail(trigs), partial)
    ELSE IF CacheMarked(Head(trigs)) THEN InListOrder(evs, Tail(trigs), partial)
    ELSE partial /\ evs = <<>>

\* before-triggers, then the action once, then after-triggers
BeforeActionAfter(own, def, partial) ==
    LET acts == {k \in 1..Len(own) : own[k].type = "action"}
    IN IF acts = {} THEN partial /\ InListOrder(own, def.before, TRUE)
       ELSE LET a == CHOOSE k \in acts : TRUE
            IN /\ Cardinality(acts) = 1
               /\ InListOrder(SubSeq(own, 1, a - 1), def.before, FALSE)
               /\ InListOrder(SubSeq(own, a + 1, Len(own)), def.after, partial)

\* The entry id2 follows the entry id1 in the handler chain of the name n.
ChainNext(id1, id2, n) ==
    LET w == extendedController[n].wrappers
    IN \E p \in 1..(Len(w) - 1) : w[p] = id1 /\ w[p + 1] = id2

\* Events i and j are the invocations of two successive entries of one chain
\* by one dispatch of that chain.
SameDispatch(i, j) ==
    /\ i < j
    /\ events[i].type = "invoke"
    /\ events[j].type = "invoke"
    /\ \E n \in DOMAIN extendedController :
          /\ ChainNext(events[i].by, events[j].by, n)
          /\ \A k \in EvIdx :
                (i < k /\ k < j) =>
                    /\ ~(events[k].type = "invoke" /\ events[k].by \in {events[i].by, events[j].by})
                    /\ ~(events[k].type = "dispatch" /\ events[k].name = n)

\* C17: every handler-chain entry that passes the auth gate and has a callable
\* action processes its before-triggers in list order, then runs its action
\* exactly once, then processes its after-triggers in list order (an exception
\* ends the sequence where it is raised); and when a dispatch invokes several
\* entries of a chain, an entry does nothing more once the next entry has
\* been invoked.
C17_BeforeActionAfter ==
    /\ \A i \in EvIdx :
          RunningInvoke(i) =>
              BeforeActionAfter(OwnEvents(i), wrapperDefs[events[i].by].def, ret.thrown)
    /\ \A i, j \in EvIdx :
          (RunningInvoke(i) /\ SameDispatch(i, j)) =>
              \A k \in EvIdx : (j < k /\ k < NextInvoke(i)) => events[k].by # events[i].by

\* C17 witness: an entry with two before-triggers and two after-triggers ran
\* all of them around its action, and the next entry on the same path ran
\* after it.
C17_Witness ==
    /\ ~ret.thrown
    /\ \E i, j \in EvIdx :
          /\ RunningInvoke(i)
          /\ RunningInvoke(j)
          /\ SameDispatch(i, j)
          /\ LET def == wrapperDefs[events[i].by].def
             IN /\ Len(def.before) >= 2
                /\ Len(def.after) >= 2
                /\ Len(OwnEvents(i)) = Len(def.before) + 1 + Len(def.after)
          /\ \E k \in EvIdx : k > j /\ events[k].type = "action" /\ events[k].by = events[j].by

\* --------------------------------------------------------------- C18
\* The dispatches among the events ev that were not trigger-originated.
NonTriggerDispatches(ev) == {i \in 1..Len(ev) : ev[i].type = "dispatch" /\ ~ev[i].flag}

\* C18 as claimed: once a go() or a change of path reported by the history
\* facility has made its (one) non-trigger dispatch and returned,
\* CurrentRouteStack holds exactly the names that dispatch invoked, in
\* invocation order, and no name left by an earlier dispatch.
C18_Original ==
    [][(/\ ret'.op \in {"go", "url"}
        /\ ~ret'.thrown
        /\ pathname' # pathname
        /\ Cardinality(NonTriggerDispatches(events')) = 1)
       => currentRoutes' = NonTriggerNames(events')]_vars

\* --------------------------------------------------------------- C19
\* The path template tpl is bound to an owning name in rts.
BoundIn(rts, tpl) == \E i \in 1..Len(rts) : rts[i].k = tpl

\* The names registered on the path template tpl, in registration order.
NamesOn(er, tpl) == er[CHOOSE i \in 1..Len(er) : er[i].k = tpl].v

\* C19: across the route() calls, a path template once bound to an owning
\* name stays bound to that name; a later route() call with a template that
\* is already bound appends its name to the template's shared sequence and
\* leaves the bindings as they were.
C19_OwnerNeverRebound ==
    [][/\ \A i \in 1..Len(routes) : Len(routes') >= i /\ routes'[i] = routes[i]
       /\ (ret'.op = "route" /\ script # <<>> /\ Head(script).def.hasPath
              /\ BoundIn(routes, StripPath(Head(script).def).path)) =>
             LET tpl == StripPath(Head(script).def).path
             IN /\ routes' = routes
                /\ NamesOn(extendedRoutes', tpl) = Append(NamesOn(extendedRoutes, tpl), ret'.arg)]_vars

\* C19 witness: a second name was registered on a path template that another
\* name owns; the owner is still the first name and the shared sequence holds
\* both.
C19_Witness ==
    /\ ret.op = "route"
    /\ \E i \in 1..Len(routes) :
          /\ routes[i].v # ret.arg
          /\ NamesOn(extendedRoutes, routes[i].k) = <<routes[i].v, ret.arg>>

\* --------------------------------------------------------------- C20
\* The name n is the owning name of a path template.
Owning(n) == \E i \in 1..Len(routes) : routes[i].v = n

\* The names registered so far.
Registered == {wrapperDefs[id].name : id \in 1..Len(wrapperDefs)}

\* C20: after startup every registered route name has a handler chain (one,
\* the registry being a map from names), a chain carries a compiled matcher
\* exactly when its name is the owning name of a path template, and a path
\* match selects the chain of an owning name only.
C20_MatcherIffOwning ==
    phase = "started" =>
        /\ DOMAIN extendedController = Registered
        /\ \A n \in DOMAIN extendedController : extendedController[n].re.set <=> Owning(n)
        /\ \A n \in DOMAIN extendedController :
              extendedController[n].re.set =>
                  \E i \in 1..Len(routes) :
                      routes[i].v = n /\ extendedController[n].re.tpl = routes[i].k
        /\ (ret.op = "url" /\ events # <<>>) =>
              /\ events[1].type = "dispatch"
              /\ Owning(events[1].name)
              /\ extendedController[events[1].name].re.set

\* C20 witness: after startup a path change ran the chain of an owning name,
\* which holds the entry of a non-owning name whose own chain has no matcher.
C20_Witness ==
    /\ phase = "started"
    /\ ret.op = "url"
    /\ events # <<>>
    /\ \E n \in DOMAIN extendedController :
          /\ ~Owning(n)
          /\ ~extendedController[n].re.set
          /\ \E j \in EvIdx : events[j].type = "invoke" /\ events[j].name = n

\* --------------------------------------------------------------- C21
\* The sequence s is the sequence t or t with entries appended.
Extends(s, t) == Len(s) >= Len(t) /\ SubSeq(s, 1, Len(t)) = t

\* C21 as claimed: across the route() calls the entry sequence of every
\* handler chain only grows by appending, also when a route name is
\* registered more than once.
C21_Original ==
    [][\A n \in DOMAIN extendedController :
          /\ n \in DOMAIN extendedController'
          /\ Extends(extendedController'[n].wrappers, extendedController[n].wrappers)]_vars

\* The route() call about to be made finds its path template owned by the name n.
OwnedBy(n) ==
    /\ script # <<>>
    /\ Head(script).def.hasPath
    /\ BoundIn(routes, StripPath(Head(script).def).path)
    /\ routes[CHOOSE i \in 1..Len(routes) : routes[i].k = StripPath(Head(script).def).path].v = n

\* C21 as amended: no call removes a chain. A route() call with a name that
\* is not registered yet leaves every entry of every chain in place: it
\* appends its entry to the chain of the owning name of its path template, or
\* starts a chain of its own. A route() call with a name that is registered
\* already appends its entry only when that name itself owns the path
\* template; otherwise the name's chain is replaced by a chain that holds the
\* new entry alone. Chains of other names are never shortened, and nothing
\* but route() changes a chain.
C21_ChainsGrowUnlessRenamed ==
    [][\A n \in DOMAIN extendedController :
          /\ n \in DOMAIN extendedController'
          /\ IF ret'.op = "route" /\ ret'.arg = n /\ ~OwnedBy(n)
             THEN extendedController'[n].wrappers = <<Len(wrapperDefs')>>
             ELSE IF ret'.op = "route" /\ OwnedBy(n)
                  THEN extendedController'[n].wrappers
                          = Append(extendedController[n].wrappers, Len(wrapperDefs'))
             ELSE extendedController'[n].wrappers = extendedController[n].wrappers]_vars

\* C21 witness: a name that had a chain of two entries was registered again
\* on another path, and its chain now holds the new entry alone.
C21_Witness ==
    /\ ret.op = "route"
    /\ Len(wrapperDefs) = 3
    /\ Cardinality({id \in 1..Len(wrapperDefs) : wrapperDefs[id].name = ret.arg}) = 2
    /\ \E id \in 1..(Len(wrapperDefs) - 1) :
          /\ wrapperDefs[id].name # ret.arg
          /\ wrapperDefs[id].def.hasPath
          /\ \E i \in 1..Len(routes) :
                routes[i].k = wrapperDefs[id].def.path /\ routes[i].v = ret.arg
    /\ extendedController[ret.arg].wrappers = <<Len(wrapperDefs)>>

\* --------------------------------------------------------------- C22
\* The entries registered on the path template tpl, as a sequence in
\* registration order.
RECURSIVE EntrySeq(_, _)
EntrySeq(tpl, n) ==
    IF n = 0 THEN <<>>
    ELSE IF n \in EntriesOn(tpl) THEN Append(EntrySeq(tpl, n - 1), n)
    ELSE EntrySeq(tpl, n - 1)

\* The entry id was registered on a path template that another name owned.
NonOwning(id) ==
    /\ wrapperDefs[id].def.hasPath
    /\ \E i \in 1..Len(routes) :
          routes[i].k = wrapperDefs[id].def.path /\ routes[i].v # wrapperDefs[id].name

\* The next dispatch after event i (past the end when none).
NextDispatch(i) ==
    LET later == {j \in EvIdx : j > i /\ events[j].type = "dispatch"}
    IN IF later = {} THEN Len(events) + 1
       ELSE CHOOSE j \in later : \A k \in later : j <= k

\* C22 as claimed, for its second half: the chain of the owning name of a
\* path template holds every entry registered on that path.
C22_Original ==
    \A i \in 1..Len(routes) :
        \A id \in EntriesOn(routes[i].k) :
            \E p \in 1..Len(extendedController[routes[i].v].wrappers) :
                extendedController[routes[i].v].wrappers[p] = id

\* C22 as amended: as long as every route name is registered once only, the
\* chain of the owning name of a path template holds every entry registered
\* on that path, in registration order, and the chain of a non-owning name b
\* holds the entry registered under b alone; dispatching b by name (as an
\* alias target or a route-named trigger) invokes that entry and none of the
\* other entries sharing its path.
C22_NonOwnerRunsAlone ==
    UniqueNames =>
        /\ \A i \in 1..Len(routes) :
              extendedController[routes[i].v].wrappers = EntrySeq(routes[i].k, Len(wrapperDefs))
        /\ \A id \in 1..Len(wrapperDefs) :
              NonOwning(id) => extendedController[wrapperDefs[id].name].wrappers = <<id>>
        /\ \A i \in EvIdx : \A id \in 1..Len(wrapperDefs) :
              (/\ events[i].type = "dispatch"
               /\ NonOwning(id)
               /\ events[i].name = wrapperDefs[id].name)
              => /\ i + 1 <= Len(events)
                 /\ events[i + 1].type = "throw"
                       \/ (events[i + 1].type = "invoke" /\ events[i + 1].by = id)
                 /\ \A k \in EvIdx :
                       (i < k /\ k < NextDispatch(i) /\ events[k].type = "invoke") =>
                           events[k].by \notin (EntriesOn(wrapperDefs[id].def.path) \ {id})

\* C22 witness: an alias whose target is a non-owning name was invoked; the
\* target's entry ran its action and the entry of the owning name, on the
\* same path, was not invoked.
C22_Witness ==
    /\ UniqueNames
    /\ ~ret.thrown
    /\ \E i \in EvIdx : \E id \in 1..Len(wrapperDefs) :
          /\ events[i].type = "dispatch"
          /\ events[i].by # 0
          /\ wrapperDefs[events[i].by].def.action.kind = "alias"
          /\ NonOwning(id)
          /\ events[i].name = wrapperDefs[id].name
          /\ \E k \in EvIdx : k > i /\ events[k].type = "action" /\ events[k].by = id
          /\ \A k \in EvIdx :
                events[k].type = "invoke" =>
                    events[k].by \notin (EntriesOn(wrapperDefs[id].def.path) \ {id})

\* --------------------------------------------------------------- C23
\* The literal path the last go() was given, without its leading separator.
GoPath ==
    IF ret.arg.path # <<>> /\ CharAt0(ret.arg.path) = Slash
    THEN Substring1(ret.arg.path) ELSE ret.arg.path

\* C23 as claimed: go({path: p}) for a literal path p that a registered
\* route's matcher accepts, the root path "/" included, passes resolving; no
\* guard vetoing, it hands p minus its leading separator to navigate and
\* returns true.
C23_Original ==
    (/\ ret.op = "go"
     /\ ret.arg.name = ""
     /\ ret.arg.hasPath
     /\ ~ret.thrown
     /\ \E n \in DOMAIN extendedController :
           extendedController[n].re.set /\ Matches(extendedController[n].re.tpl, GoPath)
     /\ GuardsInvoked(events) = {})
    => /\ ret.result = "true"
       /\ \E k \in EvIdx : Navigated(k) /\ events[k].args = <<GoPath>>

\* --------------------------------------------------------------- C24
\* The names a route definition refers to: the fallback routes of its auth
\* gate, the target of its alias, the names of its before/after triggers.
DefRefers(def) ==
    (IF def.authed # "unset" THEN {"403", "login"} ELSE {})
    \cup (IF def.action.kind = "alias" THEN {def.action.target} ELSE {})
    \cup {def.before[i].name : i \in 1..Len(def.before)}
    \cup {def.after[i].name : i \in 1..Len(def.after)}

\* The registered routes the entries ids refer to.
RefersTo(ids) ==
    UNION {DefRefers(wrapperDefs[id].def) : id \in ids} \cap DOMAIN extendedController

\* References route by route: what the definitions registered under a name
\* refer to.
NameRefs ==
    [n \in DOMAIN extendedController |->
        RefersTo({id \in 1..Len(wrapperDefs) : wrapperDefs[id].name = n})]

\* The names reached from the names S in at most k further steps of refs.
RECURSIVE ReachIn(_, _, _)
ReachIn(refs, S, k) ==
    IF k = 0 THEN S ELSE ReachIn(refs, S \cup UNION {refs[x] : x \in S}, k - 1)

Acyclic(refs) ==
    \A n \in DOMAIN refs : n \notin ReachIn(refs, refs[n], Cardinality(DOMAIN refs))

\* The last call ended within the nesting the claim allows: no dispatch ran
\* out of stack, and the processControllers calls were nested no deeper than
\* there are registered routes.
BoundedNesting ==
    /\ ~\E i \in EvIdx : events[i].type = "throw" /\ events[i].name = "RangeError"
    /\ nesting <= Cardinality(DOMAIN extendedController)

\* C24 as claimed: if the references between the routes (alias targets,
\* route-named triggers, auth-gate fallbacks) form no cycle, every dispatch
\* terminates, nested no deeper than the number of registered routes.
C24_Original == (phase = "started" /\ Acyclic(NameRefs)) => BoundedNesting

====
